---- MODULE Spec2Model ----
(***************************************************************************)
(* MorphMan morphemizers (src/morph/morphemizer.py) and the hunspell       *)
(* fallback stemmer (src/morph/deps/hunspell/stemmer.py).                  *)
(*                                                                         *)
(* A text is a sequence of characters; a character is named by a string    *)
(* ("a", " ", "U0434" for CYRILLIC SMALL LETTER DE, "U597D" for a CJK      *)
(* ideograph) and carries its Unicode code point (Ord).  Case mapping,     *)
(* character classes and UTF-8 are computed on the code points.            *)
(***************************************************************************)
EXTENDS Integers, Sequences, FiniteSets, TLC

(***************************************************************************)
(* Bounds of the model.                                                    *)
(***************************************************************************)
\* Longest enumerated expression handed to the whitespace strategy.
MaxExprLen == 4
\* Longest enumerated word handed to the fallback stemmer.
MaxWordLen == 2
\* Capacity of the memoizing cache (131072 in the source, scaled down so
\* that least-recently-used eviction happens).
CacheCapacity == 2
\* Threads of the host process calling into the registry concurrently.
NThreads == 2

\* Python's None, where an instance is expected and where a list is expected.
None == [cls |-> "NoneType", id |-> 0]
NoList == <<>>

(***************************************************************************)
(* Characters                                                              *)
(***************************************************************************)
Alphabet ==
    {"T", "h", "e", "Q", "u", "i", "c", "k", "f", "o", "x", "a", "A",
     " ", "2", "-", "U0434", "U0414", "U4F60", "U597D"}

Ord(c) ==
    CASE c = "T" -> 84   [] c = "h" -> 104 [] c = "e" -> 101 [] c = "Q" -> 81
      [] c = "u" -> 117  [] c = "i" -> 105 [] c = "c" -> 99  [] c = "k" -> 107
      [] c = "f" -> 102  [] c = "o" -> 111 [] c = "x" -> 120 [] c = "a" -> 97
      [] c = "A" -> 65   [] c = " " -> 32  [] c = "2" -> 50  [] c = "-" -> 45
      [] c = "t" -> 116  [] c = "q" -> 113
      [] c = "U0434" -> 1076  [] c = "U0414" -> 1044
      [] c = "U4F60" -> 20320 [] c = "U597D" -> 22909

AllChars == Alphabet \cup {"t", "q"}

Chr(n) == CHOOSE c \in AllChars : Ord(c) = n

\* str.isspace / \s
IsSpace(c) == Ord(c) \in {9, 10, 11, 12, 13, 28, 29, 30, 31, 32, 133, 160}
\* \d
IsDigit(c) == Ord(c) \in 48..57
IsUpper(c) == Ord(c) \in (65..90) \cup (1040..1071)
IsLowerCase(c) == Ord(c) \in (97..122) \cup (1072..1103)
\* CJK unified ideographs
IsHanzi(c) == Ord(c) \in 19968..40959
\* \w under re.UNICODE: alphanumerics and the underscore
IsWordChar(c) == IsUpper(c) \/ IsLowerCase(c) \/ IsHanzi(c) \/ IsDigit(c) \/ Ord(c) = 95

LowerChar(c) == IF IsUpper(c) THEN Chr(Ord(c) + 32) ELSE c
UpperChar(c) == IF IsLowerCase(c) THEN Chr(Ord(c) - 32) ELSE c

\* str.lower()
Lower(w) == [i \in 1..Len(w) |-> LowerChar(w[i])]
\* str.capitalize(): first character upper-cased, the rest lower-cased
Capitalize(w) ==
    [i \in 1..Len(w) |-> IF i = 1 THEN UpperChar(w[i]) ELSE LowerChar(w[i])]

(***************************************************************************)
(* UTF-8                                                                   *)
(***************************************************************************)
EncodeChar(c) ==
    LET n == Ord(c) IN
    IF n < 128 THEN <<n>>
    ELSE IF n < 2048 THEN <<192 + (n \div 64), 128 + (n % 64)>>
    ELSE <<224 + (n \div 4096), 128 + ((n \div 64) % 64), 128 + (n % 64)>>

RECURSIVE Encode(_)
Encode(w) == IF w = <<>> THEN <<>> ELSE EncodeChar(Head(w)) \o Encode(Tail(w))

\* bytes.decode("utf-8") of a well-formed byte string
RECURSIVE Decode(_)
Decode(b) ==
    IF b = <<>> THEN <<>>
    ELSE IF b[1] < 128 THEN <<Chr(b[1])>> \o Decode(SubSeq(b, 2, Len(b)))
    ELSE IF b[1] < 224
         THEN <<Chr((b[1] - 192) * 64 + (b[2] - 128))>> \o Decode(SubSeq(b, 3, Len(b)))
    ELSE <<Chr((b[1] - 224) * 4096 + (b[2] - 128) * 64 + (b[3] - 128))>>
         \o Decode(SubSeq(b, 4, Len(b)))

(***************************************************************************)
(* Morpheme (morphemes.py): the six-field record of spec section 3, built  *)
(* positionally.                                                           *)
(***************************************************************************)
Morpheme(norm, base, inflected, read, pos, subPos) ==
    [norm |-> norm, base |-> base, inflected |-> inflected, read |-> read,
     pos |-> pos, subPos |-> subPos]

Max(S) == CHOOSE m \in S : \A n \in S : n <= m
Min(S) == CHOOSE m \in S : \A n \in S : m <= n

(***************************************************************************)
(* Regular expressions, as re.findall evaluates them: scan left to right,  *)
(* at each position try a match, after a match resume at its end.          *)
(***************************************************************************)
\* e[p] exists and is a \w character
WordAt(e, p) == p >= 1 /\ p <= Len(e) /\ IsWordChar(e[p])
\* \b holds between e[p-1] and e[p]
Boundary(e, p) == WordAt(e, p - 1) # WordAt(e, p)

\* [^\s\d]
NonSpaceDigit(c) == ~IsSpace(c) /\ ~IsDigit(c)

\* Number of consecutive [^\s\d] characters from position p on.
SpaceRunLen(e, p) ==
    Max({k \in 0..(Len(e) - p + 1) : \A i \in p..(p + k - 1) : NonSpaceDigit(e[i])})

SpaceMatchEndNoBacktrack(e, p) ==
    IF /\ Boundary(e, p)
       /\ SpaceRunLen(e, p) >= 1
       /\ Boundary(e, p + SpaceRunLen(e, p))
    THEN p + SpaceRunLen(e, p) ELSE 0

\* \b[^\s\d]+\b tried at p: the position after the match, 0 when none.  The
\* greedy + gives back characters until the closing \b holds.
SpaceMatchEnd(e, p) ==
    LET ks == {k \in 1..SpaceRunLen(e, p) : Boundary(e, p + k)}
    IN  IF Boundary(e, p) /\ ks # {} THEN p + Max(ks) ELSE 0

\* The spans <<first, last>> of re.findall(r"\b[^\s\d]+\b", e) from p on.
RECURSIVE SpaceFindAll(_, _)
SpaceFindAll(e, p) ==
    IF p > Len(e) THEN <<>>
    ELSE LET q == SpaceMatchEnd(e, p)
         IN  IF q = 0 THEN SpaceFindAll(e, p + 1)
             ELSE <<(<<p, q - 1>>)>> \o SpaceFindAll(e, q)

\* \w+ tried at p: the position after the match, 0 when none.
WordRunLen(e, p) ==
    Max({k \in 0..(Len(e) - p + 1) : \A i \in p..(p + k - 1) : IsWordChar(e[i])})

WordMatchEnd(e, p) == IF WordRunLen(e, p) = 0 THEN 0 ELSE p + WordRunLen(e, p)

\* The spans of re.findall(r"\w+", e) from p on.
RECURSIVE WordFindAll(_, _)
WordFindAll(e, p) ==
    IF p > Len(e) THEN <<>>
    ELSE LET q == WordMatchEnd(e, p)
         IN  IF q = 0 THEN WordFindAll(e, p + 1)
             ELSE <<(<<p, q - 1>>)>> \o WordFindAll(e, q)

\* re.findall('[%s]' % characters, e): every ideograph, in order.
RECURSIVE HanziFindAll(_)
HanziFindAll(e) ==
    IF e = <<>> THEN <<>>
    ELSE (IF IsHanzi(Head(e)) THEN <<Head(e)>> ELSE <<>>) \o HanziFindAll(Tail(e))

\* space_char_regex.sub('', e): the plain spaces removed.
RECURSIVE StripSpaces(_)
StripSpaces(e) ==
    IF e = <<>> THEN <<>>
    ELSE (IF Head(e) = " " THEN <<>> ELSE <<Head(e)>>) \o StripSpaces(Tail(e))

Tokens(e, spans) == [i \in 1..Len(spans) |-> SubSeq(e, spans[i][1], spans[i][2])]

(***************************************************************************)
(* Fallback stemmer.  A hunspell instance is its dictionary: a finite map  *)
(* from the words it knows to their candidate stems (UTF-8 byte strings);  *)
(* stem() of any other word is empty.                                      *)
(***************************************************************************)
HspellStem(hspell, w) == IF w \in DOMAIN hspell THEN hspell[w] ELSE <<>>

\* stemmer(hspell, word): the pair (word, stem); queries is the sequence of
\* hspell.stem calls it made.
stemmerNoCapital(hspell, word) ==
    LET word_l == Lower(word)
        analysis == HspellStem(hspell, word_l)
    IN  IF Len(analysis) # 0
        THEN [word |-> word_l, stem |-> Decode(analysis[1]), queries |-> <<word_l>>]
        ELSE [word |-> word_l, stem |-> word_l, queries |-> <<word_l>>]

stemmer(hspell, word) ==
    LET word_l == Lower(word)
        analysis == HspellStem(hspell, word_l)
    IN  IF Len(analysis) # 0
        THEN [word |-> word_l, stem |-> Decode(analysis[1]), queries |-> <<word_l>>]
        ELSE LET word_c == Capitalize(word)
                 analysis_c == HspellStem(hspell, word_c)
             IN  IF Len(analysis_c) # 0
                 THEN [word |-> word_c, stem |-> Decode(analysis_c[1]),
                       queries |-> <<word_l, word_c>>]
                 ELSE [word |-> word_l, stem |-> word_l,
                       queries |-> <<word_l, word_c>>]

\* The loop body of RussianMorphemizer / BasqueMorphemizer.getMorphemesFromExpr
HunspellMorpheme(hspell, word) ==
    LET r == stemmer(hspell, word)
    IN  Morpheme(r.stem, r.stem, r.word, r.stem, "UNKNOWN", "UNKNOWN")

\* RussianMorphemizer.getMorphemesFromExpr / BasqueMorphemizer.getMorphemesFromExpr
HunspellGetMorphemesFromExpr(hspell, e) ==
    LET wordList == Tokens(e, WordFindAll(e, 1))
    IN  [i \in 1..Len(wordList) |-> HunspellMorpheme(hspell, wordList[i])]

(***************************************************************************)
(* The strategies' _getMorphemesFromExpr                                   *)
(***************************************************************************)
\* SpaceMorphemizer._getMorphemesFromExpr
SpaceGetMorphemes(expression) ==
    LET word_list == Tokens(expression, SpaceFindAll(expression, 1))
    IN  [i \in 1..Len(word_list) |->
            LET word == Lower(word_list[i])
            IN  Morpheme(word, word, word, word, "UNKNOWN", "UNKNOWN")]

\* CjkCharMorphemizer._getMorphemesFromExpr
CjkCharGetMorphemes(expression) ==
    LET cs == HanziFindAll(expression)
    IN  [i \in 1..Len(cs) |->
            Morpheme(<<cs[i]>>, <<cs[i]>>, <<cs[i]>>, <<cs[i]>>, "CJK_CHAR", "UNKNOWN")]

\* The external engines.  Their answers are not this program's; version v of
\* an engine cuts a text into single characters (v = 0) or leaves it whole.
ExternalCut(v, text) ==
    IF v = 0 THEN [i \in 1..Len(text) |-> <<text[i]>>]
    ELSE IF text = <<>> THEN <<>> ELSE <<text>>

\* jieba.posseg.cut: pairs (word, flag)
PossegCut(v, text) ==
    LET ws == ExternalCut(v, text)
    IN  [i \in 1..Len(ws) |-> [word |-> ws[i], flag |-> IF v = 0 THEN "x" ELSE "n"]]

\* mecab_wrapper.getMorphemesMecab
getMorphemesMecab(v, text) ==
    LET ws == ExternalCut(v, text)
    IN  [i \in 1..Len(ws) |->
            Morpheme(ws[i], ws[i], ws[i], ws[i],
                     IF v = 0 THEN "mecab-pos-0" ELSE "mecab-pos-1", "UNKNOWN")]

\* JiebaMorphemizer._getMorphemesFromExpr
JiebaGetMorphemes(v, expression) ==
    LET filtered == HanziFindAll(expression)
        ms == PossegCut(v, filtered)
    IN  [i \in 1..Len(ms) |->
            Morpheme(ms[i].word, ms[i].word, ms[i].word, ms[i].word,
                     ms[i].flag, "UNKNOWN")]

\* MecabMorphemizer._getMorphemesFromExpr
MecabGetMorphemes(v, expression) == getMorphemesMecab(v, StripSpaces(expression))

(***************************************************************************)
(* State                                                                   *)
(***************************************************************************)
VARIABLES
    morphemizers,          \* the module global: None (NoList) or the list of instances
    morphemizers_by_name,  \* the module global dict: name -> instance
    built,                 \* how many times the list of instances was constructed
    lru,                   \* the lru_cache of Morphemizer.getMorphemesFromExpr:
                           \* entries [key, ref], least recently used first
    heap,                  \* the live list objects: ref -> [val, orig, by, expr]
    held,                  \* the list object the caller last received (a ref)
    ext,                   \* the external engines: [mecab, jieba, ru, eu]
    ret,                   \* what the last call returned
    pc,                    \* per thread: where it is in its registry call
    local,                 \* per thread: the locals of its registry call
    inWord, inHspell, inExpr, out   \* input and output of the pure-function runs

registryVars == <<morphemizers, morphemizers_by_name, built>>
cacheVars == <<lru, heap, held, ext>>
threadVars == <<pc, local>>
pureVars == <<inWord, inHspell, inExpr, out>>
vars == <<morphemizers, morphemizers_by_name, built, lru, heap, held, ext, ret,
          pc, local, inWord, inHspell, inExpr, out>>

ClassNames ==
    <<"SpaceMorphemizer", "RussianMorphemizer", "BasqueMorphemizer",
      "MecabMorphemizer", "JiebaMorphemizer", "CjkCharMorphemizer">>

\* Names a caller asks the registry for.
Names == {ClassNames[i] : i \in 1..Len(ClassNames)} \cup {"nonexistent"}

\* An instance: its class and which construction of the list made it.
Instance(cls, n) == [cls |-> cls, id |-> n]

\* Morphemizer.getName
getName(m) == m.cls

\* [SpaceMorphemizer(), RussianMorphemizer(), ...]
NewMorphemizers(n) == [i \in 1..Len(ClassNames) |-> Instance(ClassNames[i], n)]

EmptyDict == [k \in {} |-> None]

\* for m in ms: d[m.getName()] = m
RECURSIVE StoreByName(_, _)
StoreByName(d, ms) ==
    IF ms = <<>> THEN d
    ELSE StoreByName([k \in DOMAIN d \cup {getName(Head(ms))} |->
                         IF k = getName(Head(ms)) THEN Head(ms) ELSE d[k]],
                     Tail(ms))

\* dict.get(k, None)
DictIndex(d, k) ==
    IF k \in DOMAIN d THEN [raised |-> FALSE, val |-> d[k]]
    ELSE [raised |-> TRUE, val |-> "KeyError"]

DictGet(d, k) == [raised |-> FALSE, val |-> IF k \in DOMAIN d THEN d[k] ELSE None]

Idle == [op |-> "none"]

(***************************************************************************)
(* Registry, one call at a time                                            *)
(***************************************************************************)
\* The globals after getAllMorphemizers(): <<morphemizers, by_name, built>>
AlwaysBuild(ms, byName, n) ==
    <<NewMorphemizers(n + 1), StoreByName(byName, NewMorphemizers(n + 1)), n + 1>>

AfterGetAll(ms, byName, n) ==
    IF ms = NoList
    THEN <<NewMorphemizers(n + 1), StoreByName(byName, NewMorphemizers(n + 1)), n + 1>>
    ELSE <<ms, byName, n>>

getAllMorphemizers ==
    LET g == AfterGetAll(morphemizers, morphemizers_by_name, built)
    IN  /\ morphemizers' = g[1]
        /\ morphemizers_by_name' = g[2]
        /\ built' = g[3]
        /\ ret' = [op |-> "getAllMorphemizers", first |-> morphemizers = NoList,
                   raised |-> FALSE, val |-> g[1]]
        /\ UNCHANGED <<cacheVars, threadVars, pureVars>>

getMorphemizerByName(name) ==
    LET g == AfterGetAll(morphemizers, morphemizers_by_name, built)
        r == DictGet(g[2], name)
    IN  /\ morphemizers' = g[1]
        /\ morphemizers_by_name' = g[2]
        /\ built' = g[3]
        /\ ret' = [op |-> "getMorphemizerByName", name |-> name,
                   first |-> morphemizers = NoList, raised |-> r.raised, val |-> r.val]
        /\ UNCHANGED <<cacheVars, threadVars, pureVars>>

(***************************************************************************)
(* Segmentation through the memoizing cache                                *)
(***************************************************************************)
\* Expressions the callers segment.
Exprs == { <<"A", "a", " ", "U597D">>, <<"a">> }

\* The hunspell dictionaries and engine versions the process may run against.
DictRu(v) ==
    IF v = 0 THEN (<<"a", "a">> :> <<Encode(<<"a">>), Encode(<<"a", "a">>)>>)
    ELSE (<<"A", "a">> :> <<Encode(<<"U0434">>)>>)

DictEu(v) ==
    IF v = 0 THEN EmptyDict
    ELSE (<<"a">> :> <<Encode(<<"U0434">>)>>)

World(v) == [mecab |-> v, jieba |-> v, ru |-> DictRu(v), eu |-> DictEu(v)]
Worlds == {World(v) : v \in 0..1}

HunspellClasses == {"RussianMorphemizer", "BasqueMorphemizer"}

\* self._getMorphemesFromExpr(expression), by the class of self; a class that
\* does not define it inherits Morphemizer's, which returns [].
PrivGetMorphemes(self, expression, x) ==
    CASE self.cls = "SpaceMorphemizer" -> SpaceGetMorphemes(expression)
      [] self.cls = "MecabMorphemizer" -> MecabGetMorphemes(x.mecab, expression)
      [] self.cls = "JiebaMorphemizer" -> JiebaGetMorphemes(x.jieba, expression)
      [] self.cls = "CjkCharMorphemizer" -> CjkCharGetMorphemes(expression)
      [] OTHER -> <<>>

\* The getMorphemesFromExpr override of the two hunspell classes.
OverrideGetMorphemes(self, expression, x) ==
    HunspellGetMorphemesFromExpr(
        IF self.cls = "RussianMorphemizer" THEN x.ru ELSE x.eu, expression)

\* What self computes for expression with no cache in the way.
Uncached(self, expression, x) ==
    IF self.cls \in HunspellClasses THEN OverrideGetMorphemes(self, expression, x)
    ELSE PrivGetMorphemes(self, expression, x)

\* Uncached, tabulated once over the classes, expressions and engines of the
\* model (the calls below look their result up here).
ResultTable ==
    [c \in {ClassNames[i] : i \in 1..Len(ClassNames)}, e \in Exprs, x \in Worlds |->
        Uncached(Instance(c, 1), e, x)]

Compute(self, expression, x) == ResultTable[self.cls, expression, x]

\* lru_cache's key of the call getMorphemesFromExpr(self, expression)
MakeKeyExprOnly(self, expression) == <<None, expression>>

MakeKey(self, expression) == <<self, expression>>

\* Position of key in the cache, 0 when absent.
LruFind(c, key) ==
    IF \E i \in 1..Len(c) : c[i].key = key
    THEN CHOOSE i \in 1..Len(c) : c[i].key = key
    ELSE 0

\* A hit makes the entry the most recently used.
LruTouch(c, i) == SubSeq(c, 1, i - 1) \o SubSeq(c, i + 1, Len(c)) \o <<c[i]>>

LruStoreStaleResult(c, entry) ==
    IF Len(c) >= CacheCapacity
    THEN Tail(c) \o <<[key |-> entry.key, ref |-> Head(c).ref]>>
    ELSE c \o <<entry>>

\* A miss stores the entry, evicting the least recently used one when full.
LruStore(c, entry) ==
    IF Len(c) >= CacheCapacity THEN Tail(c) \o <<entry>> ELSE c \o <<entry>>

\* List objects.  The list a miss stores is named after the key it is stored
\* under; the fresh list an uncached call returns is OwnRef.
Ref(key) == <<"cached", key>>
OwnRef == <<"own">>
NoRef == <<"none">>
LruRefs(c) == {c[i].ref : i \in 1..Len(c)}
Restrict(h, S) == [r \in DOMAIN h \cap S |-> h[r]]

NewList(val, self, expression) ==
    [val |-> val, orig |-> val, by |-> self, expr |-> expression]

IsRegistered(m) ==
    /\ morphemizers # NoList
    /\ \E i \in 1..Len(morphemizers) : morphemizers[i] = m

\* m.getMorphemesFromExpr(e) for an instance m of the registry.  The two
\* hunspell classes override the cached method; every other class inherits it.
Segment(m, e) ==
    LET overridden == m.cls \in HunspellClasses
        key == MakeKey(m, e)
        i == IF overridden THEN 0 ELSE LruFind(lru, key)
        hit == i # 0
        ref == IF overridden THEN OwnRef ELSE IF hit THEN lru[i].ref ELSE Ref(key)
        lru1 == IF overridden THEN lru
                ELSE IF hit THEN LruTouch(lru, i)
                ELSE LruStore(lru, [key |-> key, ref |-> ref])
        heap1 == IF hit THEN heap
                 ELSE [r \in DOMAIN heap \cup {ref} |->
                          IF r = ref THEN NewList(Compute(m, e, ext), m, e)
                          ELSE heap[r]]
    IN  /\ IsRegistered(m)
        /\ lru' = lru1
        /\ held' = ref
        /\ heap' = Restrict(heap1, LruRefs(lru1) \cup {ref})
        /\ ret' = [op |-> "segment", self |-> m, expr |-> e, computed |-> ~hit,
                   repeat |-> ret.op = "segment" /\ ret.self = m /\ ret.expr = e,
                   before |-> IF ret.op = "segment" /\ ret.self = m /\ ret.expr = e
                              THEN heap[held].val ELSE <<>>]
        /\ UNCHANGED <<registryVars, ext, threadVars, pureVars>>

\* The caller changes the list it last received, once: appends an element of
\* its own to it or removes its last element.
Junk == Morpheme(<<"x">>, <<"x">>, <<"x">>, <<"x">>, "JUNK", "JUNK")

CallerMutate ==
    /\ held # NoRef
    /\ heap[held].val = heap[held].orig
    /\ \E v \in {Append(heap[held].val, Junk)} \cup
                (IF heap[held].val = <<>> THEN {}
                 ELSE {SubSeq(heap[held].val, 1, Len(heap[held].val) - 1)}) :
          heap' = [heap EXCEPT ![held].val = v]
    /\ ret' = [op |-> "mutate"]
    /\ UNCHANGED <<registryVars, lru, held, ext, threadVars, pureVars>>

\* The external engines answer differently from now on.
AnalyzerChange ==
    /\ \E w \in Worlds \ {ext} : ext' = w
    /\ UNCHANGED <<registryVars, lru, heap, held, ret, threadVars, pureVars>>

(***************************************************************************)
(* Descriptions                                                            *)
(***************************************************************************)
\* getMecabIdentity(): returns a text or raises.
ProbeOutcomes ==
    {[raised |-> TRUE, val |-> "OSError"], [raised |-> TRUE, val |-> "KeyboardInterrupt"],
     [raised |-> FALSE, val |-> "ipadic"], [raised |-> FALSE, val |-> ""]}

\* MecabMorphemizer.getDescription with the probe's outcome
MecabDescriptionNoTry(probe) ==
    IF probe.raised THEN probe ELSE [raised |-> FALSE, val |-> "Japanese " \o probe.val]

MecabDescription(probe) ==
    LET identity == IF probe.raised THEN "UNAVAILABLE" ELSE probe.val
    IN  [raised |-> FALSE, val |-> "Japanese " \o identity]

Description(m, probe) ==
    CASE m.cls = "MecabMorphemizer" -> MecabDescription(probe)
      [] m.cls = "SpaceMorphemizer" -> [raised |-> FALSE, val |-> "Language w/ Spaces"]
      [] m.cls = "BasqueMorphemizer" -> [raised |-> FALSE, val |-> "Basque Hunspell"]
      [] m.cls = "RussianMorphemizer" -> [raised |-> FALSE, val |-> "Russian Hunspell"]
      [] m.cls = "CjkCharMorphemizer" -> [raised |-> FALSE, val |-> "CJK Characters"]
      [] m.cls = "JiebaMorphemizer" -> [raised |-> FALSE, val |-> "Chinese"]

\* m.getDescription(); only MecabMorphemizer's runs the probe
NoProbe == [raised |-> FALSE, val |-> "not called"]

getDescription(m) ==
    /\ IsRegistered(m)
    /\ \E probe \in (IF m.cls = "MecabMorphemizer" THEN ProbeOutcomes ELSE {NoProbe}) :
          LET r == Description(m, probe)
          IN  ret' = [op |-> "getDescription", self |-> m, probe |-> probe,
                      raised |-> r.raised, val |-> r.val]
    /\ UNCHANGED <<registryVars, cacheVars, threadVars, pureVars>>

(***************************************************************************)
(* Registry, called from several threads: one step per read or write of a  *)
(* module global, so that the interpreter may switch threads in between.   *)
(***************************************************************************)
Threads == 1..NThreads
ThreadNames == {"SpaceMorphemizer", "CjkCharMorphemizer", "nonexistent"}
NoLocal == [op |-> "none", name |-> "", it |-> <<>>, i |-> 0, val |-> None]

\* A thread enters getAllMorphemizers() or getMorphemizerByName(name).
T_Call(t) ==
    /\ pc[t] = "idle"
    /\ \E op \in {"getAllMorphemizers", "getMorphemizerByName"} :
       \E name \in (IF op = "getAllMorphemizers" THEN {""} ELSE ThreadNames) :
          local' = [local EXCEPT ![t] = [NoLocal EXCEPT !.op = op, !.name = name]]
    /\ pc' = [pc EXCEPT ![t] = "check"]
    /\ UNCHANGED <<registryVars, cacheVars, ret, pureVars>>

\* if morphemizers is None:
T_Check(t) ==
    /\ pc[t] = "check"
    /\ pc' = [pc EXCEPT ![t] = IF morphemizers = NoList THEN "build" ELSE "return"]
    /\ UNCHANGED <<registryVars, cacheVars, ret, local, pureVars>>

\* morphemizers = [SpaceMorphemizer(), ...]
T_Build(t) ==
    /\ pc[t] = "build"
    /\ built' = built + 1
    /\ morphemizers' = NewMorphemizers(built + 1)
    /\ pc' = [pc EXCEPT ![t] = "iter"]
    /\ UNCHANGED <<morphemizers_by_name, cacheVars, ret, local, pureVars>>

\* for m in morphemizers: the global is read once, when the loop starts
T_Iter(t) ==
    /\ pc[t] = "iter"
    /\ local' = [local EXCEPT ![t].it = morphemizers, ![t].i = 1]
    /\ pc' = [pc EXCEPT ![t] = "loop"]
    /\ UNCHANGED <<registryVars, cacheVars, ret, pureVars>>

\* morphemizers_by_name[m.getName()] = m
T_Loop(t) ==
    /\ pc[t] = "loop"
    /\ IF local[t].i <= Len(local[t].it)
       THEN /\ morphemizers_by_name' =
                 StoreByName(morphemizers_by_name, <<local[t].it[local[t].i]>>)
            /\ local' = [local EXCEPT ![t].i = @ + 1]
            /\ pc' = pc
       ELSE /\ pc' = [pc EXCEPT ![t] = "return"]
            /\ UNCHANGED <<morphemizers_by_name, local>>
    /\ UNCHANGED <<morphemizers, built, cacheVars, ret, pureVars>>

\* return morphemizers
T_Return(t) ==
    /\ pc[t] = "return"
    /\ IF local[t].op = "getAllMorphemizers"
       THEN /\ local' = [local EXCEPT ![t].val = morphemizers]
            /\ pc' = [pc EXCEPT ![t] = "done"]
       ELSE /\ pc' = [pc EXCEPT ![t] = "get"]
            /\ local' = local
    /\ UNCHANGED <<registryVars, cacheVars, ret, pureVars>>

\* return morphemizers_by_name.get(name, None)
T_Get(t) ==
    /\ pc[t] = "get"
    /\ local' = [local EXCEPT ![t].val = DictGet(morphemizers_by_name, local[t].name).val]
    /\ pc' = [pc EXCEPT ![t] = "done"]
    /\ UNCHANGED <<registryVars, cacheVars, ret, pureVars>>

\* The caller takes the result.
T_Done(t) ==
    /\ pc[t] = "done"
    /\ pc' = [pc EXCEPT ![t] = "idle"]
    /\ local' = [local EXCEPT ![t] = NoLocal]
    /\ UNCHANGED <<registryVars, cacheVars, ret, pureVars>>

(***************************************************************************)
(* Runs of the pure functions on enumerated inputs                         *)
(***************************************************************************)
RECURSIVE SeqsUpTo(_, _)
SeqsUpTo(S, n) ==
    IF n = 0 THEN {<<>>}
    ELSE LET shorter == SeqsUpTo(S, n - 1)
         IN  shorter \cup {Append(w, c) : w \in shorter, c \in S}

\* Word tokens: what \w+ extracts.
WordAlphabet == {"a", "A", "U0434", "U0414", "2"}
Words == SeqsUpTo(WordAlphabet, MaxWordLen) \ {<<>>}

\* What hspell.stem may answer: up to two candidate stems, UTF-8 encoded.
StemPool == {Encode(<<"a">>), Encode(<<"U0414", "a">>), Encode(<<"U597D">>)}
Responses == {<<>>} \cup {<<s>> : s \in StemPool} \cup {<<s, t>> : s \in StemPool, t \in StemPool}

ExampleExpr == <<"T", "h", "e", " ", "Q", "u", "i", "c", "k", " ", "f", "o", "x", "2">>
SpaceAlphabet == {"a", "A", " ", "2", "-"}
SpaceExprs == SeqsUpTo(SpaceAlphabet, MaxExprLen) \cup {ExampleExpr}

\* stemmer(hspell, word) and the hunspell strategy on the one-token expression
RunStemmer ==
    /\ out.status = "pending-stemmer"
    /\ out' = [status |-> "done-stemmer", pair |-> stemmer(inHspell, inWord),
               morphs |-> HunspellGetMorphemesFromExpr(inHspell, inWord)]
    /\ UNCHANGED <<registryVars, cacheVars, ret, threadVars, inWord, inHspell, inExpr>>

\* SpaceMorphemizer._getMorphemesFromExpr(inExpr)
RunSpace ==
    /\ out.status = "pending-space"
    /\ out' = [status |-> "done-space", spans |-> SpaceFindAll(inExpr, 1), morphs |-> SpaceGetMorphemes(inExpr)]
    /\ UNCHANGED <<registryVars, cacheVars, ret, threadVars, inWord, inHspell, inExpr>>

(***************************************************************************)
(* Specifications                                                          *)
(***************************************************************************)
AllInstances == {Instance(ClassNames[i], n) : i \in 1..Len(ClassNames), n \in 1..NThreads}

ProcessInit(worlds) ==
    /\ morphemizers = NoList
    /\ morphemizers_by_name = EmptyDict
    /\ built = 0
    /\ lru = <<>>
    /\ heap = EmptyDict
    /\ held = NoRef
    /\ ext \in worlds
    /\ ret = Idle
    /\ pc = [t \in Threads |-> "idle"]
    /\ local = [t \in Threads |-> NoLocal]

Init ==
    /\ ProcessInit(Worlds)
    /\ inWord = <<>> /\ inHspell = EmptyDict /\ inExpr = <<>> /\ out = [status |-> "unused"]

RegistryCall ==
    \/ getAllMorphemizers
    \/ \E name \in Names : getMorphemizerByName(name)

SegmentCall == \E m \in AllInstances, e \in Exprs : Segment(m, e)

DescriptionCall == \E m \in AllInstances : getDescription(m)

\* A host process calling one operation at a time.
Next ==
    \/ RegistryCall
    \/ SegmentCall
    \/ DescriptionCall

Spec == Init /\ [][Next]_vars

\* The same host, which now also changes the lists it received, next to
\* external engines whose answers change.
NextEnv ==
    \/ getAllMorphemizers
    \/ SegmentCall
    \/ CallerMutate
    \/ AnalyzerChange

SpecEnv == Init /\ [][NextEnv]_vars

\* Threads calling into the registry.
NextThreads ==
    \E t \in Threads :
        \/ T_Call(t) \/ T_Check(t) \/ T_Build(t) \/ T_Iter(t)
        \/ T_Loop(t) \/ T_Return(t) \/ T_Get(t) \/ T_Done(t)

InitThreads ==
    /\ ProcessInit({World(0)})
    /\ inWord = <<>> /\ inHspell = EmptyDict /\ inExpr = <<>> /\ out = [status |-> "unused"]

SpecThreads == InitThreads /\ [][NextThreads]_vars

InitStemmer ==
    /\ ProcessInit({World(0)})
    /\ inWord \in Words
    /\ inHspell \in [{Lower(inWord), Capitalize(inWord)} -> Responses]
    /\ inExpr = <<>>
    /\ out = [status |-> "pending-stemmer"]

SpecStemmer == InitStemmer /\ [][RunStemmer]_vars

InitSpace ==
    /\ ProcessInit({World(0)})
    /\ inWord = <<>> /\ inHspell = EmptyDict
    /\ inExpr \in SpaceExprs
    /\ out = [status |-> "pending-space"]

SpecSpace == InitSpace /\ [][RunSpace]_vars

(***************************************************************************)
(* Properties                                                              *)
(***************************************************************************)
\* The list the last getMorphemesFromExpr call returned, as it is now.
Returned == heap[held].val

\* C1: a segment call returns what the strategy computes for the expression
\* with no cache in the way, whatever segment calls came before; called again
\* with the same strategy and expression it returns a sequence equal to the
\* one it returned before.
C1_SegmentIdempotent ==
    ret.op = "segment" =>
        /\ Returned = Uncached(ret.self, ret.expr, ext)
        /\ ret.repeat => Returned = ret.before

\* A repeated call answered from the cache, with another strategy's entry
\* for the same expression stored beside it.
C1_Witness ==
    /\ ret.op = "segment" /\ ret.repeat /\ ~ret.computed
    /\ Returned # <<>>
    /\ \E i \in 1..Len(lru) : lru[i].key[2] = ret.expr /\ lru[i].key[1] # ret.self

\* C2: for every strategy, a call for the strategy and expression of the call
\* before it (nothing can have been evicted in between) returns what that
\* call returned, also when the external engines have changed their answers
\* since.
C2_RepeatServedFromCache ==
    (ret.op = "segment" /\ ret.repeat) => Returned = ret.before

\* What does hold: the classes that inherit the cached method answer a
\* repeated call from the cache, without computing again.
InheritingClassesServedFromCache ==
    (ret.op = "segment" /\ ret.repeat /\ ret.self.cls \notin HunspellClasses) =>
        /\ ~ret.computed
        /\ Returned = ret.before

\* C3: the list a segment call on (S, E) returns was computed by S itself,
\* for E: never an entry another strategy stored for the same text.
C3_KeyHoldsStrategy ==
    ret.op = "segment" =>
        /\ heap[held].by = ret.self
        /\ heap[held].expr = ret.expr

\* A cache hit while another strategy's entry for the same text is stored.
C3_Witness ==
    /\ ret.op = "segment" /\ ~ret.computed
    /\ \E i \in 1..Len(lru) :
          /\ lru[i].key[2] = ret.expr
          /\ lru[i].key[1] # ret.self
          /\ heap[lru[i].ref].val # Returned

RegisteredNames == {getName(morphemizers[i]) : i \in 1..Len(morphemizers)}

\* C4: getMorphemizerByName never raises; it returns None for a name no
\* strategy is registered under and, for the name of a registered strategy,
\* that instance of the list; on the first access as on later ones.
C4_ByNameTotal ==
    ret.op = "getMorphemizerByName" =>
        /\ ~ret.raised
        /\ ret.name \notin RegisteredNames => ret.val = None
        /\ ret.name \in RegisteredNames =>
              \E i \in 1..Len(morphemizers) :
                  /\ morphemizers[i] = ret.val
                  /\ getName(ret.val) = ret.name

\* The first access of the process asks for an unregistered name.
C4_Witness ==
    /\ ret.op = "getMorphemizerByName" /\ ret.first
    /\ ret.name = "nonexistent" /\ ret.val = None

RegistryWellFormed ==
    morphemizers # NoList =>
        /\ Len(morphemizers) = 6
        /\ built = 1
        /\ \A i, j \in 1..Len(morphemizers) :
              getName(morphemizers[i]) = getName(morphemizers[j]) => i = j
        /\ DOMAIN morphemizers_by_name = RegisteredNames
        /\ \A i \in 1..Len(morphemizers) :
              morphemizers_by_name[getName(morphemizers[i])] = morphemizers[i]
        /\ ret.op = "getAllMorphemizers" => ret.val = morphemizers

\* C5: once built, the list of instances and the by-name table never change;
\* the list has the 6 registered strategies, their names are pairwise
\* distinct, the table has exactly one entry per listed strategy, and
\* getAllMorphemizers returns that list.
C5_RegistryFixed ==
    /\ []RegistryWellFormed
    /\ [][morphemizers # NoList =>
            /\ morphemizers' = morphemizers
            /\ morphemizers_by_name' = morphemizers_by_name]_vars

\* getAllMorphemizers called on a registry that was already built.
C5_Witness ==
    /\ ret.op = "getAllMorphemizers" /\ ~ret.first
    /\ Len(ret.val) = 6

\* C6: stemmer(hspell, w) is (lower(w), first candidate) when stem(lower(w))
\* is not empty, else (capitalize(w), first candidate) when stem(capitalize(w))
\* is not empty, else (lower(w), lower(w)); the capitalized form is queried
\* only after the lower-cased one returned nothing; the morpheme has
\* norm = base = read = stem, inflected = the returned form, pos = subPos =
\* UNKNOWN.
C6_StemmerFallback ==
    out.status = "done-stemmer" =>
        LET l == Lower(inWord)
            c == Capitalize(inWord)
            rl == HspellStem(inHspell, l)
            rc == HspellStem(inHspell, c)
            p == out.pair
        IN  /\ rl # <<>> =>
                  /\ p.word = l /\ Encode(p.stem) = rl[1]
                  /\ p.queries = <<l>>
            /\ (rl = <<>> /\ rc # <<>>) =>
                  /\ p.word = c /\ Encode(p.stem) = rc[1]
                  /\ p.queries = <<l, c>>
            /\ (rl = <<>> /\ rc = <<>>) =>
                  /\ p.word = l /\ p.stem = l
                  /\ p.queries = <<l, c>>
            /\ out.morphs =
                  <<[norm |-> p.stem, base |-> p.stem, read |-> p.stem,
                     inflected |-> p.word, pos |-> "UNKNOWN", subPos |-> "UNKNOWN"]>>

\* A word the dictionary has only in its capitalized form.
C6_Witness ==
    /\ out.status = "done-stemmer"
    /\ HspellStem(inHspell, Lower(inWord)) = <<>>
    /\ HspellStem(inHspell, Capitalize(inWord)) # <<>>
    /\ inWord # Capitalize(inWord)
    /\ out.morphs[1].inflected = Capitalize(inWord)
    /\ out.morphs[1].norm # Lower(inWord)

Forms(ms) == [k \in 1..Len(ms) |-> ms[k].norm]

\* The maximal runs of non-space, non-digit characters of e from p on.
RECURSIVE MaximalRuns(_, _)
MaximalRuns(e, p) ==
    IF p > Len(e) THEN <<>>
    ELSE IF NonSpaceDigit(e[p])
         THEN <<SubSeq(e, p, p + SpaceRunLen(e, p) - 1)>>
              \o MaximalRuns(e, p + SpaceRunLen(e, p))
         ELSE MaximalRuns(e, p + 1)

\* e[i..j] is a run of non-space, non-digit characters between two word
\* boundaries.
BoundedRun(e, i, j) ==
    /\ 1 <= i /\ i <= j /\ j <= Len(e)
    /\ Boundary(e, i) /\ Boundary(e, j + 1)
    /\ \A k \in i..j : NonSpaceDigit(e[k])

IsMaximalRun(e, i, j) ==
    /\ 1 <= i /\ i <= j /\ j <= Len(e)
    /\ \A k \in i..j : NonSpaceDigit(e[k])
    /\ i = 1 \/ ~NonSpaceDigit(e[i - 1])
    /\ j = Len(e) \/ ~NonSpaceDigit(e[j + 1])

AllFourEqual(m, w) ==
    /\ m.norm = w /\ m.base = w /\ m.inflected = w /\ m.read = w
    /\ m.pos = "UNKNOWN" /\ m.subPos = "UNKNOWN"

\* C7, as claimed: "The Quick fox2" yields "the", "quick", "fox", and every
\* maximal run of non-space, non-digit characters yields one lower-cased
\* morpheme, in order.
C7_EveryRunEmitted ==
    out.status = "done-space" =>
        /\ inExpr = ExampleExpr =>
              Forms(out.morphs) = << <<"t", "h", "e">>, <<"q", "u", "i", "c", "k">>,
                                     <<"f", "o", "x">> >>
        /\ Len(out.morphs) = Len(MaximalRuns(inExpr, 1))
        /\ \A n \in 1..Len(out.morphs) :
              AllFourEqual(out.morphs[n], Lower(MaximalRuns(inExpr, 1)[n]))

\* C7, amended: "The Quick fox2" yields "the", "quick" only.  The morphemes
\* are, left to right, the lower-cased runs of non-space, non-digit
\* characters that lie between two word boundaries, each taken as long as
\* possible and none skipped; a maximal run yields one morpheme when it
\* starts and ends at a word boundary.
C7_BoundedRunsEmitted ==
    out.status = "done-space" =>
        LET e == inExpr
            S == out.spans
            M == out.morphs
        IN  /\ e = ExampleExpr =>
                  Forms(M) = << <<"t", "h", "e">>, <<"q", "u", "i", "c", "k">> >>
            /\ Len(M) = Len(S)
            /\ \A n \in 1..Len(S) :
                  /\ AllFourEqual(M[n], Lower(SubSeq(e, S[n][1], S[n][2])))
                  /\ BoundedRun(e, S[n][1], S[n][2])
                  /\ \A j \in (S[n][2] + 1)..Len(e) : ~BoundedRun(e, S[n][1], j)
                  /\ n < Len(S) => S[n][2] < S[n + 1][1]
            /\ \A i \in 1..Len(e), j \in 1..Len(e) :
                  /\ BoundedRun(e, i, j) =>
                        \E n \in 1..Len(S) : S[n][1] <= i /\ i <= S[n][2]
                  /\ (IsMaximalRun(e, i, j) /\ Boundary(e, i) /\ Boundary(e, j + 1)) =>
                        \E n \in 1..Len(S) : S[n] = <<i, j>>

\* "The Quick fox2" segmented: two morphemes.
C7_Witness ==
    /\ out.status = "done-space"
    /\ inExpr = ExampleExpr
    /\ Len(out.morphs) = 2

\* C8: MecabMorphemizer.getDescription never raises; when the identity probe
\* fails the description carries UNAVAILABLE, and when it succeeds the
\* probe's identity.
C8_DescriptionNeverRaises ==
    (ret.op = "getDescription" /\ ret.self.cls = "MecabMorphemizer") =>
        /\ ~ret.raised
        /\ ret.probe.raised => ret.val = "Japanese UNAVAILABLE"
        /\ (~ret.probe.raised /\ ret.probe.val = "ipadic") => ret.val = "Japanese ipadic"
        /\ (~ret.probe.raised /\ ret.probe.val = "") => ret.val = "Japanese "

\* The probe raised and the description was returned.
C8_Witness ==
    /\ ret.op = "getDescription" /\ ret.self.cls = "MecabMorphemizer"
    /\ ret.probe.raised /\ ret.probe.val = "KeyboardInterrupt"
    /\ ret.val = "Japanese UNAVAILABLE"

\* C9: under any interleaving of the threads the list is built once, and a
\* lookup of a registered name returns an instance of the list
\* getAllMorphemizers returns, never None.
C9_ThreadSafeRegistry ==
    /\ built <= 1
    /\ \A t \in Threads :
          (/\ pc[t] = "done"
           /\ local[t].op = "getMorphemizerByName"
           /\ local[t].name \in {ClassNames[i] : i \in 1..Len(ClassNames)}) =>
              /\ local[t].val # None
              /\ \E i \in 1..Len(morphemizers) : morphemizers[i] = local[t].val

\* C10: the list a segment call returns is as the strategy computed it,
\* whatever callers did to the lists they received earlier.
C10_ReturnedListUntouched ==
    ret.op = "segment" => Returned = heap[held].orig

====
